---- MODULE Spec2Model ----
(***************************************************************************)
(* Model of the Quax / PsiJax core:                                        *)
(*   - restricted_hartree_fock  (quax/methods/hartree_fock.py)             *)
(*   - the one-electron integral primitives, their disk-backed derivative  *)
(*     lookup, JVP rules and batching rules (external_integrals/oei.py)    *)
(*                                                                         *)
(* Floating point energies and residuals are fixed-point integers in units *)
(* of 1e-8; the convergence threshold is kept in units of 1e-10.           *)
(* Entries of derivative vectors are floats in the program; they are kept  *)
(* here in units of one half, so that the integer conversion of            *)
(* np.asarray(deriv_vec, int) is a real truncation.                        *)
(***************************************************************************)
EXTENDS Integers, Sequences, FiniteSets, TLC

\* ------------------------------------------------------------------ bounds
MaxIter == 12          \* cap on modelled SCF iterations of one run
MaxEnergy == 2         \* energies produced by rhf_iter: 0..MaxEnergy (1e-8)
MaxResidual == 2       \* DIIS residuals: 0..MaxResidual (1e-8)
MaxDensity == 1        \* densities produced by rhf_iter: 0..MaxDensity
Dim == 2               \* 3*n_atom, the length of a derivative vector
MaxStored == 2         \* highest derivative order the store may hold
MaxBatch == 2          \* derivative vectors in one batched call
MaxChain == 3          \* nested forward-mode applications

\* ------------------------------------------------------- program constants
One == 100000000       \* the float 1.0 in units of 1e-8
ConvDefault == 1       \* 1e-10 in units of 1e-10
ConvShift == 100       \* 1e-8  in units of 1e-10
DampIters == 10        \* damping only while iteration < 10

VARIABLES
  \* --- restricted_hartree_fock
  maxit, damping, damp_factor, spectral_shift, convergence,
  iteration, E_scf, E_old, D, Dold, dRMS,
  D_fock,        \* the density the last Fock build used (local D at line 110)
  eps_defined,   \* C, eps are bound only by an rhf_iter call
  rhf_calls,     \* number of rhf_iter calls performed
  scf_pc,        \* "loop" | "exited" | "returned"
  reported,      \* the count printed at line 127 (-1: nothing printed)
  ret,           \* the returned E_scf
  raised         \* an exception left the function

scfvars == <<maxit, damping, damp_factor, spectral_shift, convergence,
             iteration, E_scf, E_old, D, Dold, dRMS, D_fock, eps_defined,
             rhf_calls, scf_pc, reported, ret, raised>>

VARIABLES
  \* --- the derivative tensor store (oei_derivs.h5)
  file_exists,   \* the file is present
  stored_order,  \* datasets {kind}_deriv1 .. {kind}_deriv{stored_order}
  store_dim,     \* coordinate count the store was generated for
  open_handles,  \* h5py.File handles currently open
  handle_mode,   \* mode of the last handle opened
  \* --- one call into the integral operators
  pc,            \* "idle" | "begin" | "open" | "opened" | "dataset" | "done"
  op,            \* "none" | "deriv" | "batch" | "jvp"
  kind,
  requests,      \* the derivative vectors the caller asks for, in order
  deriv_dim,     \* batch axis of the deriv_vec argument (batch_dims[1])
  todo,          \* rows of deriv_batch still to evaluate
  results,       \* slices gathered so far
  out_axis,      \* batch axis reported by the batching rule (-1: none)
  err,           \* exception that ended the call, or "none"
  cur,           \* locals of the running *_deriv_impl call
  \* --- forward-mode chain
  jop,           \* operator the tangent output is bound to: "none" | "deriv"
  jvec,          \* its deriv_vec argument
  jprimal,       \* the primal output of the last rule applied
  chain          \* tangents applied so far

oeivars == <<file_exists, stored_order, store_dim, open_handles, handle_mode,
             pc, op, kind, requests, deriv_dim, todo, results, out_axis, err,
             cur, jop, jvec, jprimal, chain>>

vars == <<scfvars, oeivars>>

Abs(x) == IF x < 0 THEN -x ELSE x

\* options['maxit'] inputs
MaxitVals == {0, 1, 2, 3, MaxIter - 1}
DampFactors == {0, 1}
EnergyVals == 0..MaxEnergy
ResidualVals == 0..MaxResidual
DensityVals == 0..MaxDensity

\* x (units of 1e-8) > c (units of 1e-10): x * 100 > c, written without
\* the product so that 1.0 stays inside the integer range
Exceeds(x, c) == x > (c \div 100)

\* the loop condition with "and" in place of "or"
WhileCondAnd(e, eo, dr, c) == Exceeds(Abs(e - eo), c) /\ Exceeds(dr, c)

\* line 102
WhileCond(e, eo, dr, c) == Exceeds(Abs(e - eo), c) \/ Exceeds(dr, c)

\* line 125
MaxitReached(it, m) == it = m

\* damping without the iteration test
DampNowAlways(dmp, it) == dmp
\* lines 105-106
DampNow(dmp, it) == dmp /\ it < DampIters

\* line 107
Blend(f, dold, d) == dold * f + d * f

\* residual refreshed one iteration too early
ResidualRefreshedEarly(it) == it > 0
\* line 115
ResidualRefreshed(it) == it > 1

\* lines 25-29, 66-72, 78-81, 94-98
InitScf ==
  /\ maxit \in MaxitVals
  /\ damping \in BOOLEAN
  /\ damp_factor \in DampFactors
  /\ spectral_shift \in BOOLEAN
  /\ convergence = IF spectral_shift THEN ConvShift ELSE ConvDefault
  /\ D \in DensityVals            \* zeros (0) or the dmguess seed
  /\ Dold = D
  /\ iteration = 0
  /\ E_scf = One
  /\ E_old = 0
  /\ dRMS = One
  /\ D_fock = 0
  /\ eps_defined = FALSE
  /\ rhf_calls = 0
  /\ scf_pc = "loop"
  /\ reported = -1
  /\ ret = 0
  /\ raised = FALSE

\* one pass through the loop body, lines 103-126; e, d are what rhf_iter
\* returns (line 123), r is the residual line 120 computes
Iterate ==
  /\ scf_pc = "loop"
  /\ iteration < MaxIter
  /\ WhileCond(E_scf, E_old, dRMS, convergence)
  /\ \E e \in EnergyVals, d \in DensityVals, r \in ResidualVals :
        /\ dRMS' = IF ResidualRefreshed(iteration) THEN r ELSE dRMS
        /\ E_scf' = e
        /\ D' = d
  /\ E_old' = E_scf
  /\ LET blended == Blend(damp_factor, Dold, D)
         dn == DampNow(damping, iteration)
     IN /\ D_fock' = IF dn THEN blended ELSE D
        /\ Dold' = IF dn THEN blended ELSE Dold
  /\ eps_defined' = TRUE
  /\ rhf_calls' = rhf_calls + 1
  /\ iteration' = iteration + 1
  /\ scf_pc' = IF MaxitReached(iteration + 1, maxit) THEN "exited" ELSE "loop"
  /\ UNCHANGED <<maxit, damping, damp_factor, spectral_shift, convergence,
                 reported, ret, raised>>
  /\ UNCHANGED oeivars

\* line 102 evaluating to false
ExitConverged ==
  /\ scf_pc = "loop"
  /\ ~WhileCond(E_scf, E_old, dRMS, convergence)
  /\ scf_pc' = "exited"
  /\ UNCHANGED <<maxit, damping, damp_factor, spectral_shift, convergence,
                 iteration, E_scf, E_old, D, Dold, dRMS, D_fock, eps_defined,
                 rhf_calls, reported, ret, raised>>
  /\ UNCHANGED oeivars

\* lines 127-139: print the count, read eps (unbound if no iteration ran),
\* return E_scf
Finish ==
  /\ scf_pc = "exited"
  /\ scf_pc' = "returned"
  /\ reported' = iteration
  /\ raised' = ~eps_defined
  /\ ret' = IF eps_defined THEN E_scf ELSE ret
  /\ UNCHANGED <<maxit, damping, damp_factor, spectral_shift, convergence,
                 iteration, E_scf, E_old, D, Dold, dRMS, D_fock, eps_defined,
                 rhf_calls>>
  /\ UNCHANGED oeivars

NextScf ==
  \/ Iterate
  \/ ExitConverged
  \/ Finish

\* ======================================================================
\* external_integrals/oei.py
\* ======================================================================
Kinds == {"overlap", "kinetic", "potential"}

RECURSIVE SumSeq(_)
SumSeq(v) == IF v = <<>> THEN 0 ELSE Head(v) + SumSeq(Tail(v))

\* line 63, one entry: the C cast of np.asarray(x, int) truncates toward zero
AsInt(h) == IF h >= 0 THEN h \div 2 ELSE -((-h) \div 2)

\* line 63
AsIntVec(v) == [i \in DOMAIN v |-> AsInt(v[i])]

\* deriv_vec + tangents[0], elementwise
VecAdd(u, t) == [i \in DOMAIN u |-> u[i] + t[i]]

\* number of derivative vectors of length d and sum n
RECURSIVE Count(_, _)
Count(d, n) ==
  IF n < 0 THEN 0
  ELSE IF d = 0 THEN (IF n = 0 THEN 1 ELSE 0)
  ELSE IF d = 1 THEN 1
  ELSE Count(d - 1, n) + Count(d, n - 1)

\* utils.get_deriv_vec_idx rejects what is not a derivative vector of the
\* loaded geometry
get_deriv_vec_idx_fails(v) == Len(v) # Dim \/ \E i \in DOMAIN v : v[i] < 0

\* utils.get_deriv_vec_idx: position of v among the vectors of its length
\* and sum, enumerated as multisets of coordinates in lexicographic order
RECURSIVE get_deriv_vec_idx(_)
get_deriv_vec_idx(v) ==
  IF Len(v) <= 1 THEN 0
  ELSE LET n == SumSeq(v)
           RECURSIVE Before(_)
           Before(a) == IF a > n THEN 0
                        ELSE Count(Len(v) - 1, n - a) + Before(a + 1)
       IN Before(v[1] + 1) + get_deriv_vec_idx(Tail(v))

\* f[dataset_name] succeeds, line 68
HasDataset(order) == order \in 1..stored_order

\* columns of the dataset of that order, third axis
Columns(order) == Count(store_dim, order)

\* the 2d slice data_set[:,:,idx] of {k}_deriv{order}
Slice(k, order, idx) == <<k, order, idx>>

\* an error inside the with block that leaves the handle open
ReleaseNever(n) == n
\* the with statement of line 67 leaving its block
Release(n) == n - 1

\* the exception a missing dataset ends in (h5py raises KeyError), line 68
MissingDatasetError == "KeyError"

\* the whole of overlap_deriv_impl / kinetic_deriv_impl /
\* potential_deriv_impl on one vector, as a function of the store
DerivOutcome(k, v) ==
  LET cv == AsIntVec(v)
      order == SumSeq(cv)
  IN IF get_deriv_vec_idx_fails(cv) THEN [err |-> "ValueError", val |-> <<>>]
     ELSE IF ~file_exists THEN [err |-> "OSError", val |-> <<>>]
     ELSE IF ~HasDataset(order) THEN [err |-> MissingDatasetError, val |-> <<>>]
     ELSE IF get_deriv_vec_idx(cv) >= Columns(order)
          THEN [err |-> "IndexError", val |-> <<>>]
     ELSE [err |-> "none", val |-> Slice(k, order, get_deriv_vec_idx(cv))]

\* overlap_impl / kinetic_impl / potential_impl: the reshaped libint matrix
BaseValue(k) == <<k, 0, -1>>

\* rows and columns exchanged
Transpose(m) ==
  [j \in 1..Len(m[1]) |-> [i \in 1..Len(m) |-> m[i][j]]]

\* results gathered newest first
GatherReversed(rs, x) == <<x>> \o rs
\* lines 168-169 (178-179, 188-189): append, then concatenate along axis 0
Gather(rs, x) == Append(rs, x)

\* "for i in deriv_batch", lines 166, 176, 186: always along axis 0
BatchRows(batch, dd) == batch

\* the rule forgetting the primal's deriv_vec
JvpTangentVecDropPrimal(u, t) == t
\* lines 119, 132, 144: deriv_vec + tangents[0]
JvpTangentVec(u, t) == VecAdd(u, t)

NoCur == [vec |-> <<>>, order |-> 0, idx |-> 0]

\* entries of a requested vector, in halves: -1, 0, 0.5, 1, 1.5
EntryVals == {-2, 0, 1, 2, 3}
VecsOver(S, n) == [1..n -> S]
RequestVecs == VecsOver(EntryVals, Dim) \cup VecsOver(EntryVals, Dim - 1)
\* well-formed derivative vectors with entries 0 or 1
PlainVecs == VecsOver({0, 2}, Dim)
\* the standard basis tangents forward mode passes
UnitVecs == {[i \in 1..Dim |-> IF i = j THEN 2 ELSE 0] : j \in 1..Dim}
Batches == UNION {[1..n -> PlainVecs] : n \in 1..MaxBatch}

InitOei ==
  /\ file_exists \in BOOLEAN
  /\ stored_order \in 0..MaxStored
  /\ store_dim \in {Dim - 1, Dim}
  /\ open_handles = 0
  /\ handle_mode = "none"
  /\ pc = "idle"
  /\ op = "none"
  /\ kind = "overlap"
  /\ requests = <<>>
  /\ deriv_dim = 0
  /\ todo = <<>>
  /\ results = <<>>
  /\ out_axis = -1
  /\ err = "none"
  /\ cur = NoCur
  /\ jop = "none"
  /\ jvec = <<>>
  /\ jprimal = <<>>
  /\ chain = <<>>

storevars == <<file_exists, stored_order, store_dim>>
jvpvars == <<jop, jvec, jprimal, chain>>

\* overlap_deriv(geom, deriv_vec) called directly: bind -> impl
CallDeriv ==
  /\ pc = "idle" /\ jop = "none"
  /\ \E k \in Kinds, v \in RequestVecs :
        /\ op' = "deriv" /\ kind' = k
        /\ requests' = <<v>> /\ deriv_dim' = 0
        /\ todo' = <<v>>
  /\ results' = <<>> /\ out_axis' = -1 /\ err' = "none"
  /\ pc' = "begin"
  /\ UNCHANGED scfvars
  /\ UNCHANGED <<storevars, open_handles, handle_mode, cur, jvpvars>>

\* overlap_deriv_batch / kinetic_deriv_batch / potential_deriv_batch,
\* lines 163-166: reqs are the caller's vectors, laid out along axis dd of
\* deriv_batch
CallBatch ==
  /\ pc = "idle" /\ jop = "none"
  /\ \E k \in Kinds, reqs \in Batches, dd \in {0, 1} :
        /\ op' = "batch" /\ kind' = k
        /\ requests' = reqs /\ deriv_dim' = dd
        /\ todo' = BatchRows(IF dd = 0 THEN reqs ELSE Transpose(reqs), dd)
  /\ results' = <<>> /\ out_axis' = -1 /\ err' = "none"
  /\ pc' = "begin"
  /\ UNCHANGED scfvars
  /\ UNCHANGED <<storevars, open_handles, handle_mode, cur, jvpvars>>

\* overlap_jvp / kinetic_jvp / potential_jvp, lines 109-114
JvpBase ==
  /\ pc = "idle" /\ jop = "none"
  /\ \E k \in Kinds, t \in UnitVecs :
        /\ op' = "jvp" /\ kind' = k
        /\ jprimal' = <<"base">>
        /\ jop' = "deriv" /\ jvec' = t
        /\ chain' = <<t>>
  /\ UNCHANGED scfvars
  /\ UNCHANGED <<storevars, open_handles, handle_mode, pc, requests,
                 deriv_dim, todo, results, out_axis, err, cur>>

\* overlap_deriv_jvp / kinetic_deriv_jvp / potential_deriv_jvp, lines 116-120
JvpDeriv ==
  /\ pc = "idle" /\ jop = "deriv"
  /\ Len(chain) < MaxChain
  /\ \E t \in UnitVecs :
        /\ jprimal' = <<"deriv", jvec>>
        /\ jvec' = JvpTangentVec(jvec, t)
        /\ chain' = Append(chain, t)
  /\ UNCHANGED scfvars
  /\ UNCHANGED <<storevars, open_handles, handle_mode, pc, op, kind, requests,
                 deriv_dim, todo, results, out_axis, err, cur, jop>>

\* the outputs of the outermost rule are evaluated: the primal output,
\* then the tangent output
JvpEval ==
  /\ pc = "idle" /\ jop = "deriv"
  /\ requests' = <<jvec>> /\ deriv_dim' = 0
  /\ IF jprimal[1] = "base"
     THEN results' = <<BaseValue(kind)>> /\ todo' = <<jvec>>
     ELSE results' = <<>> /\ todo' = <<jprimal[2], jvec>>
  /\ out_axis' = -1 /\ err' = "none"
  /\ pc' = "begin"
  /\ UNCHANGED scfvars
  /\ UNCHANGED <<storevars, open_handles, handle_mode, op, kind, cur, jvpvars>>

\* lines 63-66 (76-79, 89-92)
ImplBegin ==
  /\ pc = "begin"
  /\ LET cv == AsIntVec(Head(todo))
     IN IF get_deriv_vec_idx_fails(cv)
        THEN /\ err' = "ValueError" /\ pc' = "done" /\ cur' = NoCur
        ELSE /\ cur' = [vec |-> cv, order |-> SumSeq(cv),
                        idx |-> get_deriv_vec_idx(cv)]
             /\ pc' = "open" /\ err' = err
  /\ UNCHANGED scfvars
  /\ UNCHANGED <<storevars, open_handles, handle_mode, op, kind, requests,
                 deriv_dim, todo, results, out_axis, jvpvars>>

\* line 67 (80, 93): h5py.File('oei_derivs.h5', 'r')
ImplOpen ==
  /\ pc = "open"
  /\ IF file_exists
     THEN /\ open_handles' = open_handles + 1 /\ handle_mode' = "r"
          /\ pc' = "opened" /\ err' = err
     ELSE /\ err' = "OSError" /\ pc' = "done"
          /\ UNCHANGED <<open_handles, handle_mode>>
  /\ UNCHANGED scfvars
  /\ UNCHANGED <<storevars, op, kind, requests, deriv_dim, todo, results,
                 out_axis, cur, jvpvars>>

\* line 68 (81, 94): data_set = f[dataset_name]
ImplGetDataset ==
  /\ pc = "opened"
  /\ IF HasDataset(cur.order)
     THEN /\ pc' = "dataset" /\ err' = err /\ open_handles' = open_handles
     ELSE /\ err' = MissingDatasetError /\ pc' = "done"
          /\ open_handles' = Release(open_handles)
  /\ UNCHANGED scfvars
  /\ UNCHANGED <<storevars, handle_mode, op, kind, requests, deriv_dim, todo,
                 results, out_axis, cur, jvpvars>>

\* lines 69-70 (82-83, 95-96) and, in a batch, lines 168-170: slice, leave
\* the with block, return; the caller appends and goes on or stacks
ImplSlice ==
  /\ pc = "dataset"
  /\ open_handles' = Release(open_handles)
  /\ IF cur.idx < Columns(cur.order)
     THEN /\ results' = Gather(results, Slice(kind, cur.order, cur.idx))
          /\ todo' = Tail(todo)
          /\ err' = err
          /\ pc' = IF Tail(todo) = <<>> THEN "done" ELSE "begin"
          /\ out_axis' = IF Tail(todo) = <<>> /\ op = "batch" THEN 0
                         ELSE out_axis
     ELSE /\ err' = "IndexError" /\ pc' = "done"
          /\ UNCHANGED <<results, todo, out_axis>>
  /\ UNCHANGED scfvars
  /\ UNCHANGED <<storevars, handle_mode, op, kind, requests, deriv_dim, cur,
                 jvpvars>>

\* the call is over; the next one starts from scratch
Return ==
  /\ pc = "done"
  /\ pc' = "idle" /\ op' = "none" /\ kind' = "overlap"
  /\ requests' = <<>> /\ deriv_dim' = 0 /\ todo' = <<>> /\ results' = <<>>
  /\ out_axis' = -1 /\ err' = "none" /\ cur' = NoCur
  /\ jop' = "none" /\ jvec' = <<>> /\ jprimal' = <<>> /\ chain' = <<>>
  /\ UNCHANGED scfvars
  /\ UNCHANGED <<storevars, open_handles, handle_mode>>

NextOei ==
  \/ CallDeriv
  \/ CallBatch
  \/ JvpBase
  \/ JvpDeriv
  \/ JvpEval
  \/ ImplBegin
  \/ ImplOpen
  \/ ImplGetDataset
  \/ ImplSlice
  \/ Return

\* ======================================================================
\* specifications
\* ======================================================================
\* no integral call in progress
OeiParked ==
  /\ file_exists = TRUE /\ stored_order = 0 /\ store_dim = Dim
  /\ open_handles = 0 /\ handle_mode = "none"
  /\ pc = "idle" /\ op = "none" /\ kind = "overlap"
  /\ requests = <<>> /\ deriv_dim = 0 /\ todo = <<>> /\ results = <<>>
  /\ out_axis = -1 /\ err = "none" /\ cur = NoCur
  /\ jop = "none" /\ jvec = <<>> /\ jprimal = <<>> /\ chain = <<>>

\* no SCF run in progress
ScfParked ==
  /\ maxit = 1 /\ damping = FALSE /\ damp_factor = 0
  /\ spectral_shift = FALSE /\ convergence = ConvDefault
  /\ D = 0 /\ Dold = 0 /\ iteration = 0 /\ E_scf = One /\ E_old = 0
  /\ dRMS = One /\ D_fock = 0 /\ eps_defined = FALSE /\ rhf_calls = 0
  /\ scf_pc = "loop" /\ reported = -1 /\ ret = 0 /\ raised = FALSE

Init == InitScf /\ OeiParked
Next == NextScf
Spec == Init /\ [][Next]_vars

InitIntegrals == InitOei /\ ScfParked
NextIntegrals == NextOei
SpecOei == InitIntegrals /\ [][NextIntegrals]_vars


\* ======================================================================
\* restricted_hartree_fock: properties
\* ======================================================================
Left == scf_pc \in {"exited", "returned"}

\* C1: maxit is a hard cap for every integer maxit: the number of rhf_iter
\* calls performed never exceeds maxit
C1_MaxitHardCap == rhf_calls > 0 => rhf_calls <= maxit

C3_NonConvergenceReported ==
  (scf_pc = "returned" /\ iteration >= maxit) =>
     /\ iteration = maxit
     /\ reported = maxit
     /\ ret = E_scf
     /\ ~raised

\* C9: damping acts only in iterations 0..9 and only when enabled: there the
\* Fock build uses damp_factor*Dold + damp_factor*D and Dold takes that
\* value; otherwise the Fock build uses D as it stands and Dold is untouched
C9_DampingWindow ==
  [][(iteration' = iteration + 1) =>
       IF damping /\ iteration < 10
       THEN /\ D_fock' = damp_factor * Dold + damp_factor * D
            /\ Dold' = D_fock'
       ELSE /\ D_fock' = D
            /\ Dold' = Dold]_vars

C9_Witness ==
  /\ damping /\ damp_factor = 1 /\ iteration = 11
  /\ Dold > 1 /\ D_fock = 0

\* C10: the body runs at least once before the function returns, and an exit
\* after fewer than three iterations is the maxit cutoff
C10_AtLeastOnce ==
  Left => /\ iteration >= 1
          /\ eps_defined
          /\ ~raised
          /\ (iteration < 3 => iteration = maxit)

C10_Witness ==
  /\ scf_pc = "returned" /\ iteration = 2
  /\ E_scf = E_old /\ dRMS = One

\* ======================================================================
\* integral operators: properties
\* ======================================================================
RECURSIVE SumVecs(_)
SumVecs(ts) ==
  IF Len(ts) = 1 THEN ts[1]
  ELSE VecAdd(SumVecs(SubSeq(ts, 1, Len(ts) - 1)), ts[Len(ts)])

RECURSIVE ChainOrder(_)
ChainOrder(ts) ==
  IF ts = <<>> THEN 0 ELSE SumSeq(AsIntVec(Head(ts))) + ChainOrder(Tail(ts))

\* C4: a request whose order has no dataset ends in
\* MissingDerivativeDataError
C4_TypedMissingData ==
  (pc = "done" /\ err # "none" /\ cur # NoCur /\ file_exists
     /\ ~HasDataset(cur.order)) => err = "MissingDerivativeDataError"

\* C5: at most one store handle is open, it is read-only, and none is open
\* outside the with block, whatever way the block was left
C5_ScopedRelease ==
  /\ open_handles \in {0, 1}
  /\ (open_handles = 1 => handle_mode = "r")
  /\ (pc \in {"idle", "begin", "open", "done"} => open_handles = 0)

C5_Witness ==
  /\ pc = "done" /\ err = "IndexError" /\ Len(results) >= 1
  /\ open_handles = 0

\* C6: the tangent output of n nested rules with tangents t1..tn is the
\* derivative operator at t1 + ... + tn, its primal output is the operator
\* one level down, and evaluating it is the lookup of that vector in the
\* dataset of order sum(t1) + ... + sum(tn)
C6_JvpComposition ==
  /\ jop = "deriv" =>
       /\ jvec = SumVecs(chain)
       /\ jprimal = IF Len(chain) = 1 THEN <<"base">>
                    ELSE <<"deriv", SumVecs(SubSeq(chain, 1, Len(chain) - 1))>>
  /\ (pc = "done" /\ op = "jvp" /\ err = "none") =>
       /\ results[Len(results)] =
             Slice(kind, ChainOrder(chain),
                   get_deriv_vec_idx(AsIntVec(SumVecs(chain))))
       /\ Len(chain) = 1 => results = <<BaseValue(kind), results[2]>>

C6_Witness ==
  /\ pc = "done" /\ op = "jvp" /\ err = "none"
  /\ Len(chain) = 2 /\ chain[1] # chain[2]

\* what evaluating the requests one by one, in order, gives
Individually(k, reqs) == [i \in DOMAIN reqs |-> DerivOutcome(k, reqs[i])]

BatchAgrees ==
  LET outs == Individually(kind, requests)
      bad == {i \in DOMAIN outs : outs[i].err # "none"}
  IN IF bad = {}
     THEN /\ err = "none"
          /\ results = [i \in DOMAIN outs |-> outs[i].val]
          /\ out_axis = 0
     ELSE /\ err = outs[CHOOSE i \in bad : \A j \in bad : i <= j].err

\* C7 as stated: what a batched call returns is the individual results, in
\* request order, for every batch axis of the derivative-vector argument
C7_BatchAnyAxis ==
  (pc = "done" /\ op = "batch" /\ err = "none") =>
     /\ results = [i \in DOMAIN requests |->
                      DerivOutcome(kind, requests[i]).val]
     /\ out_axis = 0

\* C7 amended: the same, for a derivative-vector argument batched along
\* axis 0
C7_BatchAxis0 ==
  (pc = "done" /\ op = "batch" /\ deriv_dim = 0) => BatchAgrees

C7_Witness ==
  /\ pc = "done" /\ op = "batch" /\ deriv_dim = 0 /\ err = "none"
  /\ Len(results) = 2 /\ results[1] # results[2]

\* a request that is not a derivative vector of the loaded geometry
Malformed(v) ==
  \/ Len(v) # Dim
  \/ \E i \in DOMAIN v : v[i] < 0 \/ v[i] % 2 # 0

\* C8: a malformed derivative request ends in an error
C8_MalformedFailsLoudly ==
  (pc = "done" /\ op = "deriv" /\ Malformed(requests[1])) => err # "none"
====
